---- MODULE Spec2Model ----
(***************************************************************************)
(* Model of agentic.py: the chain                                          *)
(*   describe_image | creative_with_image_preservation                     *)
(*                  | generate_images_from_prompts                         *)
(* A text is a sequence of atoms.  The characters the code looks at one by *)
(* one (braces, quote, colon, comma, blank, "./") are atoms of their own;  *)
(* every other atom stands for a run of ordinary characters that neither   *)
(* the regular expression nor the JSON scanner looks into.                 *)
(***************************************************************************)
EXTENDS Integers, Sequences, FiniteSets, TLC

\* ---------------------------------------------------------------- bounds
MaxLen == 4
MaxPad == 1
MaxItems == 2

\* ------------------------------------------------------------- characters
LB == "{"
RB == "}"
QT == "\""
CL == ":"
CM == ","
SP == " "
DOTSLASH == "./"

Alphabet == {LB, RB, QT, CL, CM, SP, "a", "b"}

RECURSIVE SeqsUpTo(_, _)
SeqsUpTo(S, n) ==
    IF n = 0 THEN {<<>>}
    ELSE LET shorter == SeqsUpTo(S, n - 1)
         IN  shorter \cup {Append(s, c) : s \in shorter, c \in S}

StartsWith(s, p) == Len(s) >= Len(p) /\ SubSeq(s, 1, Len(p)) = p

NULL == "NULL"

\* ------------------------------------------------- re.search(r"\{.*\}")
\* The leftmost start at which the pattern matches, and from there the
\* greedy (longest) match: NULL when no start matches.
MatchEnds(text, i) == {j \in (i + 1)..Len(text) : text[j] = RB}

MatchStarts(text) ==
    {i \in 1..Len(text) : text[i] = LB /\ MatchEnds(text, i) # {}}

Max(S) == CHOOSE x \in S : \A y \in S : y <= x
Min(S) == CHOOSE x \in S : \A y \in S : x <= y

NoMatch == [found |-> FALSE, start |-> 0, end |-> 0]

\* Mutant: the pattern written non-greedy, \{.*?\}
ReSearchLazy(text) ==
    IF MatchStarts(text) = {} THEN NoMatch
    ELSE LET i == Min(MatchStarts(text))
         IN  [found |-> TRUE, start |-> i, end |-> Min(MatchEnds(text, i))]

ReSearch(text) ==
    IF MatchStarts(text) = {} THEN NoMatch
    ELSE LET i == Min(MatchStarts(text))
         IN  [found |-> TRUE, start |-> i, end |-> Max(MatchEnds(text, i))]

\* ------------------------------------------------------------ json.loads
\* Values are [t |-> "str", v |-> atoms] or [t |-> "obj", v |-> pairs];
\* a scanner result is [ok, val, next] with next the index after the value.
Fail == [ok |-> FALSE, val |-> NULL, next |-> 0]

RECURSIVE SkipWs(_, _)
SkipWs(s, i) == IF i <= Len(s) /\ s[i] = SP THEN SkipWs(s, i + 1) ELSE i

\* scanstring: s[i] is the opening quote; the string ends at the next quote.
ScanString(s, i) ==
    LET closers == {j \in (i + 1)..Len(s) : s[j] = QT}
    IN  IF closers = {} THEN Fail
        ELSE LET j == Min(closers)
             IN  [ok |-> TRUE,
                  val |-> [t |-> "str", v |-> SubSeq(s, i + 1, j - 1)],
                  next |-> j + 1]

\* dict(pairs): a repeated key keeps its first position and its last value.
RECURSIVE DictOf(_)
DictOf(pairs) ==
    IF pairs = <<>> THEN <<>>
    ELSE LET n == Len(pairs)
             d == DictOf(SubSeq(pairs, 1, n - 1))
             p == pairs[n]
             at == {k \in 1..Len(d) : d[k].key = p.key}
         IN  IF at = {} THEN Append(d, p)
             ELSE [d EXCEPT ![Min(at)] = p]

RECURSIVE ScanValue(_, _)
RECURSIVE ScanPairs(_, _, _)

\* JSONObject: s[i] is the opening brace.
ScanObject(s, i) ==
    LET j == SkipWs(s, i + 1)
    IN  IF j > Len(s) THEN Fail
        ELSE IF s[j] = RB
             THEN [ok |-> TRUE, val |-> [t |-> "obj", v |-> <<>>], next |-> j + 1]
        ELSE IF s[j] # QT THEN Fail
        ELSE ScanPairs(s, j, <<>>)

\* s[i] is the opening quote of a key; pairs are the pairs read so far.
ScanPairs(s, i, pairs) ==
    LET k == ScanString(s, i)
    IN  IF ~k.ok THEN Fail
        ELSE LET c == SkipWs(s, k.next)
             IN  IF c > Len(s) \/ s[c] # CL THEN Fail
                 ELSE LET v == ScanValue(s, SkipWs(s, c + 1))
                      IN  IF ~v.ok THEN Fail
                          ELSE LET ps == Append(pairs, [key |-> k.val.v, val |-> v.val])
                                   e == SkipWs(s, v.next)
                               IN  IF e > Len(s) THEN Fail
                                   ELSE IF s[e] = RB
                                        THEN [ok |-> TRUE,
                                              val |-> [t |-> "obj", v |-> DictOf(ps)],
                                              next |-> e + 1]
                                   ELSE IF s[e] # CM THEN Fail
                                   ELSE LET q == SkipWs(s, e + 1)
                                        IN  IF q > Len(s) \/ s[q] # QT THEN Fail
                                            ELSE ScanPairs(s, q, ps)

ScanValue(s, i) ==
    IF i > Len(s) THEN Fail
    ELSE IF s[i] = QT THEN ScanString(s, i)
    ELSE IF s[i] = LB THEN ScanObject(s, i)
    ELSE Fail

\* json.loads: one value, blanks around it, nothing after it.
JsonLoads(s) ==
    LET v == ScanValue(s, SkipWs(s, 1))
    IN  IF ~v.ok THEN Fail
        ELSE IF SkipWs(s, v.next) <= Len(s) THEN Fail
        ELSE v

\* ------------------------------------------------------- parse_json_safe
NoJsonFound == "ValueError: No JSON found in AI output"
JsonDecodeError == "JSONDecodeError"

MatchGroup(text, m) == SubSeq(text, m.start, m.end)

\* Mutant: no match and a span that does not decode give an empty mapping.
parse_json_lenient(text) ==
    LET m == ReSearch(text)
    IN  IF m.found
        THEN LET v == JsonLoads(MatchGroup(text, m))
             IN  IF v.ok THEN [raised |-> NULL, value |-> v.val.v]
                 ELSE [raised |-> NULL, value |-> <<>>]
        ELSE [raised |-> NULL, value |-> <<>>]

parse_json_safe(text) ==
    LET m == ReSearch(text)
    IN  IF m.found
        THEN LET v == JsonLoads(MatchGroup(text, m))
             IN  IF v.ok THEN [raised |-> NULL, value |-> v.val.v]
                 ELSE [raised |-> JsonDecodeError, value |-> <<>>]
        ELSE [raised |-> NoJsonFound, value |-> <<>>]

\* ------------------------------------------------------- base64.b64decode
\* binascii.a2b_base64, not strict: a character outside the alphabet is
\* skipped, decoding stops at the padding that completes a quad, and data
\* left in an incomplete quad is an error.
B64Chars == {"A", "B", "F", "Q", "U"}

B64Val(c) ==
    CASE c = "A" -> 0
      [] c = "B" -> 1
      [] c = "F" -> 5
      [] c = "Q" -> 16
      [] c = "U" -> 20

IncorrectPadding == "Incorrect padding"
InvalidBase64 == "Invalid base64-encoded string"

B64Done(quad_pos, out) ==
    IF quad_pos = 0 THEN [raised |-> NULL, bytes |-> out]
    ELSE IF quad_pos = 1 THEN [raised |-> InvalidBase64, bytes |-> <<>>]
    ELSE [raised |-> IncorrectPadding, bytes |-> <<>>]

RECURSIVE B64Step(_, _, _, _, _, _)
B64Step(s, i, quad_pos, pads, leftchar, out) ==
    IF i > Len(s) THEN B64Done(quad_pos, out)
    ELSE IF s[i] = "="
         THEN IF quad_pos >= 2 /\ quad_pos + pads + 1 >= 4
              THEN B64Done(0, out)
              ELSE B64Step(s, i + 1, quad_pos,
                           IF quad_pos >= 2 THEN pads + 1 ELSE pads, leftchar, out)
    ELSE IF s[i] \notin B64Chars
         THEN B64Step(s, i + 1, quad_pos, pads, leftchar, out)
    ELSE LET c == B64Val(s[i])
         IN  CASE quad_pos = 0 -> B64Step(s, i + 1, 1, 0, c, out)
               [] quad_pos = 1 ->
                    B64Step(s, i + 1, 2, 0, c % 16,
                            Append(out, (leftchar * 4 + c \div 16) % 256))
               [] quad_pos = 2 ->
                    B64Step(s, i + 1, 3, 0, c % 4,
                            Append(out, (leftchar * 16 + c \div 4) % 256))
               [] quad_pos = 3 ->
                    B64Step(s, i + 1, 0, 0, 0,
                            Append(out, (leftchar * 64 + c) % 256))

b64decode(s) == B64Step(s, 1, 0, 0, 0, <<>>)

\* ------------------------------------------------------ service responses
\* An output item of client.responses.create.  Every item has a `type`;
\* its `content` is absent, None or a list (ABSENT/NONE/LIST); the `result`
\* of a generation call is None or base64 text.
ABSENT == "ABSENT"
NONE == "NONE"
LIST == "LIST"
ImageGenerationCall == "image_generation_call"

Item(type, has_content, content, result_none, result) ==
    [type |-> type,
     content |-> [has |-> has_content, items |-> content],
     result |-> [none |-> result_none, text |-> result]]

GenCall(text) == Item(ImageGenerationCall, ABSENT, <<>>, FALSE, text)
GenCallNoResult == Item(ImageGenerationCall, ABSENT, <<>>, TRUE, <<>>)
MessageItem ==
    Item("message", LIST, <<[has_text |-> TRUE], [has_text |-> FALSE]>>, TRUE, <<>>)
ReasoningItem == Item("reasoning", NONE, <<>>, TRUE, <<>>)
ToolCallItem == Item("function_call", ABSENT, <<>>, TRUE, <<>>)

PngA == <<"Q", "Q", "=", "=">>
PngAAA == <<"Q", "!", "U", "F", "B">>
BadPadding == <<"Q", "Q", "=">>

Items ==
    {GenCall(PngA), GenCall(PngAAA), GenCall(BadPadding), GenCallNoResult,
     MessageItem, ReasoningItem, ToolCallItem}

ServiceErrors == {"APIConnectionError: Connection error."}

NoResponse == [got |-> FALSE, raised |-> NULL, output |-> <<>>]
Raises(msg) == [got |-> TRUE, raised |-> msg, output |-> <<>>]
Returns(output) == [got |-> TRUE, raised |-> NULL, output |-> output]

GenerationReplies ==
    {Raises(m) : m \in ServiceErrors}
        \cup {Returns(o) : o \in SeqsUpTo(Items, MaxItems)}

\* ------------------------------------------------------------ the inputs
Images == {PngA, <<"A", "A", "=", "=">>}
Descriptions == {<<"a red square">>}

Obj1(k1, v1) == <<LB, QT>> \o k1 \o <<QT, CL, SP, QT>> \o v1 \o <<QT, RB>>
Obj2(k1, v1, k2, v2) ==
    <<LB, QT>> \o k1 \o <<QT, CL, QT>> \o v1 \o <<QT, CM, SP, QT>>
        \o k2 \o <<QT, CL, QT>> \o v2 \o <<QT, RB>>

\* What the completion service may answer: a JSON object alone or inside
\* prose, one or two keys, a repeated key, no keys, no braces, braces in the
\* wrong order, a span that does not decode.
RawResponses ==
    {Obj1(<<"prompt1">>, <<"rotate 90 degrees">>),
     <<"Here is the result:", SP>> \o Obj2(<<"a">>, <<"x">>, <<"b">>, <<"y">>)
         \o <<SP, "thanks">>,
     Obj2(<<"a">>, <<"x">>, <<DOTSLASH, "a">>, <<"y">>),
     Obj2(<<"a">>, <<"x">>, <<"a">>, <<"y">>),
     <<LB, RB>>,
     <<"no json here">>,
     <<RB, SP, LB>>,
     Obj1(<<"a">>, <<"x">>) \o <<SP, RB>>}

\* SpecParse: every text of at most MaxLen characters, and JSON objects
\* with at most MaxPad characters before and after them.
Cores ==
    {Obj1(<<"a">>, <<"b">>),
     Obj2(<<"a">>, <<"b">>, <<"b">>, <<"a">>),
     Obj2(<<"a">>, <<"b">>, <<"a">>, <<"a">>),
     Obj1(<<"a">>, <<RB>>),
     Obj1(<<"a">>, <<LB>>),
     <<LB, QT, "a", QT, CL, LB, RB, RB>>,
     <<LB, QT, "a", QT, CL, QT, "b", QT, CM, RB>>,
     <<LB, QT, "a", QT, QT, "b", QT, RB>>}

ExampleText ==
    <<"Here is the result:", SP>>
        \o Obj2(<<"prompt1">>, <<"a">>, <<"prompt2">>, <<"b">>)
        \o <<SP, "thanks">>

ParseTexts ==
    SeqsUpTo(Alphabet, MaxLen)
        \cup {ExampleText}
        \cup {pre \o core \o post :
                pre \in SeqsUpTo(Alphabet, MaxPad),
                core \in Cores,
                post \in SeqsUpTo(Alphabet, MaxPad)}

\* ------------------------------------------------------------- the state
VARIABLES
    pc,                 \* where the run is
    base64_image,       \* the argument of chain.invoke
    description_result, \* what describe_image returned
    creative_result,    \* what creative_with_image_preservation returned
    prompts_json,       \* the parsed ideas, in the dict's order
    idx,                \* keys of prompts_json the loop has finished
    images,             \* the outcome dict, in insertion order
    response,           \* the generation service's answer for the current key
    image_bytes,        \* the decoded bytes waiting to be written
    files,              \* the working directory: resolved path -> bytes
    requests,           \* every service request issued, in order
    in_flight,          \* generation requests not yet answered
    stages,             \* the stages entered, in order
    observed,           \* per finished request: what the service and the disk did
    raised              \* the error the caller sees, or NULL

vars ==
    <<pc, base64_image, description_result, creative_result, prompts_json, idx,
      images, response, image_bytes, files, requests, in_flight, stages,
      observed, raised>>

DataUrlPrefix == "data:image/jpeg;base64,"
DataUrl(b64) == <<DataUrlPrefix>> \o b64

Request(service, key, text, b64) ==
    [service |-> service, key |-> key, text |-> text, image_url |-> DataUrl(b64)]

NoResult == [description |-> <<>>, base64_image |-> <<>>, ai_message |-> <<>>]

Init ==
    /\ pc = "describe"
    /\ base64_image \in Images
    /\ description_result = NoResult
    /\ creative_result = NoResult
    /\ prompts_json = <<>>
    /\ idx = 0
    /\ images = <<>>
    /\ response = NoResponse
    /\ image_bytes = <<>>
    /\ files = <<>>
    /\ requests = <<>>
    /\ in_flight = 0
    /\ stages = <<>>
    /\ observed = <<>>
    /\ raised = NULL

\* chain = image_description_runnable | creative_runnable | image_generation_runnable
\* Each runnable is invoked once on the output of the one before it; an
\* exception of a runnable leaves the chain.
\* Mutant: a failed runnable is invoked again.
ChainStepRetry(stage, ok) ==
    IF ~ok THEN stage
    ELSE CASE stage = "describe" -> "ideate"
           [] stage = "ideate" -> "parse"
           [] stage = "parse" -> "loop"

ChainStep(stage, ok) ==
    IF ~ok THEN "raised"
    ELSE CASE stage = "describe" -> "ideate"
           [] stage = "ideate" -> "parse"
           [] stage = "parse" -> "loop"

\* ---------------------------------------------------------- describe_image
describe_image(b64, output_text) ==
    [description |-> output_text, base64_image |-> b64, ai_message |-> <<>>]

Describe ==
    /\ pc = "describe"
    /\ stages' = Append(stages, "Describing")
    /\ requests' = Append(requests,
                          Request("description", <<>>, <<"Describe the image">>,
                                  base64_image))
    /\ \/ \E output_text \in Descriptions :
            /\ description_result' = describe_image(base64_image, output_text)
            /\ pc' = ChainStep(pc, TRUE)
            /\ raised' = raised
       \/ \E e \in ServiceErrors :
            /\ pc' = ChainStep(pc, FALSE)
            /\ raised' = e
            /\ description_result' = description_result
    /\ UNCHANGED <<base64_image, creative_result, prompts_json, idx, images,
                   response, image_bytes, files, in_flight, observed>>

\* ------------------------------------------ creative_with_image_preservation
\* Mutant: the image is not carried into the result.
creative_without_image(input_data, ai_message) ==
    [ai_message |-> ai_message,
     base64_image |-> <<>>,
     description |-> input_data.description]

creative_with_image_preservation(input_data, ai_message) ==
    [ai_message |-> ai_message,
     base64_image |-> input_data.base64_image,
     description |-> input_data.description]

Ideate ==
    /\ pc = "ideate"
    /\ stages' = Append(stages, "Ideating")
    /\ requests' = Append(requests,
                          Request("completion", <<>>,
                                  <<"Here is the image description:">>
                                      \o description_result.description,
                                  description_result.base64_image))
    /\ \/ \E ai_message \in RawResponses :
            /\ creative_result' =
                   creative_with_image_preservation(description_result, ai_message)
            /\ pc' = ChainStep(pc, TRUE)
            /\ raised' = raised
       \/ \E e \in ServiceErrors :
            /\ pc' = ChainStep(pc, FALSE)
            /\ raised' = e
            /\ creative_result' = creative_result
    /\ UNCHANGED <<base64_image, description_result, prompts_json, idx, images,
                   response, image_bytes, files, in_flight, observed>>

\* -------------------------------------------- generate_images_from_prompts
ErrorPrefix == "Error: "

\* Mutant: the message alone, without the prefix.
ErrorOutcomeBare(msg) == <<msg>>

ErrorOutcome(msg) == <<ErrorPrefix, msg>>
NoImageGenerated == <<"No image generated">>

FileSuffix == "_hashi.png"

\* Mutant: the file named by the key alone.
FilePathPlain(key) == key \o <<".png">>

FilePath(key) == key \o <<FileSuffix>>

\* The file a path names in the working directory: a leading "./" names
\* the working directory itself.
RECURSIVE Resolve(_)
Resolve(path) ==
    IF path # <<>> /\ Head(path) = DOTSLASH THEN Resolve(Tail(path)) ELSE path

\* images[key] = value
DictSet(d, key, value) ==
    LET at == {k \in 1..Len(d) : d[k].key = key}
    IN  IF at = {} THEN Append(d, [key |-> key, val |-> value])
        ELSE [d EXCEPT ![Min(at)] = [key |-> key, val |-> value]]

DictKeys(d) == [k \in 1..Len(d) |-> d[k].key]

EnhancedPrompt(description, prompt) ==
    <<"ORIGINAL IMAGE DESCRIPTION: ">> \o description
        \o <<"ENHANCEMENT IDEA: ">> \o prompt.v \o <<"STRICT INSTRUCTIONS">>

LenOfNoneMsg == "object of type 'NoneType' has no len()"
NotIterableMsg == "'NoneType' object is not iterable"
OpenErrorMsg == "[Errno 13] Permission denied"
WriteErrorMsg == "[Errno 28] No space left on device"

IsGenCall(item) == item.type = ImageGenerationCall

\* [output for output in response.output if output.type == ...]
ImageGenerationCalls(output) == SelectSeq(output, IsGenCall)

\* The logging loop of the else branch: iterating a content of None raises.
LoggingRaises(output) == \E i \in 1..Len(output) : output[i].content.has = NONE

\* Lines 156-168 and 178-185 on an answer of the service: what the try
\* block has reached when it next touches the file system or leaves.
\*   "error": an exception with message msg;  "none": no generation call;
\*   "image": the decoded bytes of the first generation call.
Caught(msg) == [kind |-> "error", msg |-> msg, bytes |-> <<>>]

Inspect(resp) ==
    IF resp.raised # NULL THEN Caught(resp.raised)
    ELSE LET calls == ImageGenerationCalls(resp.output)
         IN  IF calls # <<>>
             THEN LET image_data == calls[1].result
                  IN  IF image_data.none THEN Caught(LenOfNoneMsg)
                      ELSE LET d == b64decode(image_data.text)
                           IN  IF d.raised # NULL THEN Caught(d.raised)
                               ELSE [kind |-> "image", msg |-> NULL, bytes |-> d.bytes]
             ELSE IF LoggingRaises(resp.output) THEN Caught(NotIterableMsg)
             ELSE [kind |-> "none", msg |-> NULL, bytes |-> <<>>]

CurrentKey == prompts_json[idx + 1].key
CurrentPrompt == prompts_json[idx + 1].val

\* Lines 102-107: the stage starts by parsing the ideation response.
Parse ==
    /\ pc = "parse"
    /\ stages' = Append(stages, "Generating")
    /\ LET r == parse_json_safe(creative_result.ai_message)
       IN  IF r.raised # NULL
           THEN /\ pc' = ChainStep(pc, FALSE)
                /\ raised' = r.raised
                /\ prompts_json' = prompts_json
           ELSE /\ pc' = ChainStep(pc, TRUE)
                /\ raised' = raised
                /\ prompts_json' = r.value
    /\ images' = <<>>
    /\ UNCHANGED <<base64_image, description_result, creative_result, idx,
                   response, image_bytes, files, requests, in_flight, observed>>

\* Lines 109-153: the next key's request goes out.
GenRequest ==
    /\ pc = "loop"
    /\ idx < Len(prompts_json)
    /\ requests' = Append(requests,
                          Request("generation", CurrentKey,
                                  EnhancedPrompt(creative_result.description,
                                                 CurrentPrompt),
                                  creative_result.base64_image))
    /\ in_flight' = in_flight + 1
    /\ response' = NoResponse
    /\ pc' = "await"
    /\ UNCHANGED <<base64_image, description_result, creative_result,
                   prompts_json, idx, images, image_bytes, files, stages,
                   observed, raised>>

\* for key, prompt in prompts_json.items(): the loop moves to the next item.
\* Mutant: the same key is tried again.
NextIndexStay(i) == i

NextIndex(i) == i + 1

\* Mutant: the exception is swallowed and nothing is recorded.
OnExceptionDropped(d, key, msg) == d

\* except Exception as e: images[key] = f"Error: {str(e)}"
OnException(d, key, msg) == DictSet(d, key, ErrorOutcome(msg))

\* The current key has its outcome and the loop goes on.
NextKey(new_images) ==
    /\ images' = new_images
    /\ idx' = NextIndex(idx)
    /\ pc' = "loop"

\* What the service answered for a key: whether it raised, how many
\* generation calls the answer holds and the result of the first of them.
Observation(key, r) ==
    LET at == {i \in 1..Len(r.output) : r.output[i].type = ImageGenerationCall}
    IN  [key |-> key,
         raised |-> r.raised,
         output |-> Len(r.output),
         calls |-> Cardinality(at),
         first |-> IF at = {} THEN [none |-> TRUE, text |-> <<>>]
                   ELSE r.output[Min(at)].result,
         write |-> "not tried"]

\* Lines 153-168, 177-191: the service answers or raises; the answer is
\* inspected and the result decoded.
GenReply ==
    /\ pc = "await"
    /\ \E r \in GenerationReplies :
          /\ response' = r
          /\ LET got == Inspect(r)
             IN  CASE got.kind = "error" ->
                        /\ NextKey(OnException(images, CurrentKey, got.msg))
                        /\ image_bytes' = image_bytes
                   [] got.kind = "none" ->
                        /\ NextKey(DictSet(images, CurrentKey, NoImageGenerated))
                        /\ image_bytes' = image_bytes
                   [] got.kind = "image" ->
                        /\ image_bytes' = got.bytes
                        /\ pc' = "write"
                        /\ UNCHANGED <<images, idx>>
          /\ observed' = Append(observed, Observation(CurrentKey, r))
    /\ in_flight' = in_flight - 1
    /\ UNCHANGED <<base64_image, description_result, creative_result,
                   prompts_json, files, requests, stages, raised>>

\* Lines 171-173: open(file_path, "wb") creates or truncates the file, then
\* the bytes are written; either may raise OSError.
WriteFile ==
    /\ pc = "write"
    /\ LET path == Resolve(FilePath(CurrentKey))
           n == Len(observed)
       IN  \/ /\ files' = (path :> image_bytes) @@ files
              /\ observed' = [observed EXCEPT ![n].write = "written"]
              /\ pc' = "record"
              /\ UNCHANGED <<images, idx>>
           \/ /\ files' = files
              /\ observed' = [observed EXCEPT ![n].write = "open failed"]
              /\ NextKey(OnException(images, CurrentKey, OpenErrorMsg))
           \/ /\ files' = (path :> <<>>) @@ files
              /\ observed' = [observed EXCEPT ![n].write = "write failed"]
              /\ NextKey(OnException(images, CurrentKey, WriteErrorMsg))
    /\ UNCHANGED <<base64_image, description_result, creative_result,
                   prompts_json, response, image_bytes, requests, in_flight,
                   stages, raised>>

\* Line 175: images[key] = file_path
Record ==
    /\ pc = "record"
    /\ NextKey(DictSet(images, CurrentKey, FilePath(CurrentKey)))
    /\ UNCHANGED <<base64_image, description_result, creative_result,
                   prompts_json, response, image_bytes, files, requests,
                   in_flight, stages, observed, raised>>

\* Line 193: return images
Return ==
    /\ pc = "loop"
    /\ idx = Len(prompts_json)
    /\ pc' = "done"
    /\ UNCHANGED <<base64_image, description_result, creative_result,
                   prompts_json, idx, images, response, image_bytes, files,
                   requests, in_flight, stages, observed, raised>>

Next ==
    \/ Describe
    \/ Ideate
    \/ Parse
    \/ GenRequest
    \/ GenReply
    \/ WriteFile
    \/ Record
    \/ Return

Spec == Init /\ [][Next]_vars

\* generate_images_from_prompts called on its own with any bounded text as
\* the ideation response: the parse step alone.
InitParse ==
    /\ pc = "parse"
    /\ base64_image \in Images
    /\ description_result = NoResult
    /\ creative_result \in
           {creative_with_image_preservation(
                describe_image(base64_image, <<>>), text) : text \in ParseTexts}
    /\ prompts_json = <<>>
    /\ idx = 0
    /\ images = <<>>
    /\ response = NoResponse
    /\ image_bytes = <<>>
    /\ files = <<>>
    /\ requests = <<>>
    /\ in_flight = 0
    /\ stages = <<>>
    /\ observed = <<>>
    /\ raised = NULL

NextParse == Parse

SpecParse == InitParse /\ [][NextParse]_vars

\* ================================================================ claims
IsGeneration(r) == r.service = "generation"
GenRequests == SelectSeq(requests, IsGeneration)
GenKeys == [i \in 1..Len(GenRequests) |-> GenRequests[i].key]
KeySet(d) == {d[i].key : i \in 1..Len(d)}
Entered(stage) == \E i \in 1..Len(stages) : stages[i] = stage
RawText == creative_result.ai_message
Decoded(o) == b64decode(o.first.text)
Decodes(o) == o.calls > 0 /\ ~o.first.none /\ Decoded(o).raised = NULL
FileAt(path) == files[Resolve(path)]
FileExists(path) == Resolve(path) \in DOMAIN files

\* C1: when the stage returns, the outcome has exactly the keys of the
\* parsed idea map: none missing, none added, whatever each key's
\* generation did.
C1_KeySetPreserved ==
    pc = "done" =>
        /\ Len(images) = Len(prompts_json)
        /\ KeySet(images) = KeySet(prompts_json)

C1_Witness ==
    /\ pc = "done"
    /\ Len(prompts_json) = 2
    /\ observed[1].raised # NULL
    /\ observed[2].raised = NULL /\ observed[2].calls = 0
    /\ Len(images) = 2

\* C2: a key whose service call raised has the outcome "Error: " followed
\* by the message, the stage itself has not raised, the loop can go on to
\* the next key, and at the return every later key was requested and has
\* its own outcome: its file path when its file was written.
C2_PerKeyIsolation ==
    \A i \in 1..Len(observed) :
        observed[i].raised # NULL =>
            /\ i <= Len(images)
            /\ images[i].key = prompts_json[i].key
            /\ StartsWith(images[i].val, <<"Error: ">>)
            /\ images[i].val = <<"Error: ", observed[i].raised>>
            /\ raised = NULL /\ pc # "raised"
            /\ (pc = "loop" /\ idx < Len(prompts_json)) => ENABLED GenRequest
            /\ pc = "done" =>
                 \A j \in (i + 1)..Len(prompts_json) :
                     /\ j <= Len(observed) /\ j <= Len(images)
                     /\ GenKeys[j] = prompts_json[j].key
                     /\ images[j].key = prompts_json[j].key
                     /\ observed[j].write = "written"
                            => images[j].val = FilePath(prompts_json[j].key)

C2_Witness ==
    /\ pc = "done"
    /\ Len(observed) = 2
    /\ observed[1].raised # NULL
    /\ observed[2].write = "written"
    /\ StartsWith(images[1].val, <<"Error: ">>)
    /\ images[2].val = FilePath(prompts_json[2].key)

\* C3 (as claimed): every key whose response holds no generation-call
\* item, whatever else it holds, has the outcome "No image generated".
C3_AbsenceAsClaimed ==
    \A i \in 1..Len(observed) :
        (observed[i].raised = NULL /\ observed[i].calls = 0) =>
            /\ i <= Len(images)
            /\ images[i].val = <<"No image generated">>

\* C4: when the ideation response holds no brace span, or the span does
\* not decode, the stage raises the parse error, returns nothing, and no
\* generation request and no file write has happened.
NoSpan(text) ==
    ~ \E i, j \in 1..Len(text) : i < j /\ text[i] = LB /\ text[j] = RB

FirstLB(text) == Min({i \in 1..Len(text) : text[i] = LB})
LastRB(text) == Max({j \in 1..Len(text) : text[j] = RB})

Undecodable(text) ==
    /\ ~NoSpan(text)
    /\ ~JsonLoads(SubSeq(text, FirstLB(text), LastRB(text))).ok

HardStop ==
    /\ pc = "raised"
    /\ images = <<>>
    /\ GenRequests = <<>>
    /\ in_flight = 0
    /\ files = <<>>
    /\ observed = <<>>

C4_ParseHardStop ==
    /\ (Entered("Generating") /\ NoSpan(RawText))
           => (raised = NoJsonFound /\ HardStop)
    /\ (Entered("Generating") /\ Undecodable(RawText))
           => (raised = JsonDecodeError /\ HardStop)
    /\ raised \in {NoJsonFound, JsonDecodeError} => HardStop

C4_Witness ==
    /\ raised = JsonDecodeError
    /\ Entered("Generating")
    /\ Len(requests) = 2

\* C5 (amended): when some closing brace follows the first opening brace,
\* the text from the first opening brace to the last closing brace is what
\* is decoded, into the mapping or into a decode error; every other text,
\* with no braces or with no closing brace after the first opening one,
\* raises the no-JSON parse failure.
HasSpan(text) ==
    /\ \E i \in 1..Len(text) : text[i] = LB
    /\ \E j \in 1..Len(text) : text[j] = RB
    /\ FirstLB(text) < LastRB(text)

DecodesSpan(text) ==
    LET v == JsonLoads(SubSeq(text, FirstLB(text), LastRB(text)))
    IN  IF v.ok THEN raised = NULL /\ pc = "loop" /\ prompts_json = v.val.v
        ELSE raised = JsonDecodeError /\ pc = "raised"

ExampleMap ==
    <<[key |-> <<"prompt1">>, val |-> [t |-> "str", v |-> <<"a">>]],
      [key |-> <<"prompt2">>, val |-> [t |-> "str", v |-> <<"b">>]]>>

C5_SpanSelection ==
    Entered("Generating") =>
        /\ IF HasSpan(RawText) THEN DecodesSpan(RawText)
           ELSE raised = NoJsonFound /\ pc = "raised"
        /\ RawText = ExampleText => prompts_json = ExampleMap

C5_Witness ==
    /\ Entered("Generating")
    /\ RawText = ExampleText
    /\ prompts_json = ExampleMap
    /\ pc = "loop"

\* C5 (as claimed): every text is either without braces, and raises, or has
\* its first-opening-brace to last-closing-brace substring decoded.
HasBrace(text) == \E i \in 1..Len(text) : text[i] \in {LB, RB}

C5_AsClaimed ==
    Entered("Generating") =>
        IF HasBrace(RawText)
        THEN raised # NoJsonFound /\ HasSpan(RawText) /\ DecodesSpan(RawText)
        ELSE raised = NoJsonFound

\* C6: the encoded image given to the chain is the one in the description
\* result, the one in the ideation result and the one embedded in every
\* generation request.
C6_ImageCarried ==
    /\ description_result # NoResult
           => description_result.base64_image = base64_image
    /\ creative_result # NoResult
           => creative_result.base64_image = base64_image
    /\ \A i \in 1..Len(GenRequests) :
           GenRequests[i].image_url = <<"data:image/jpeg;base64,">> \o base64_image

C6_Witness ==
    /\ pc = "done"
    /\ Len(GenRequests) = 2
    /\ \A i \in 1..2 : Tail(GenRequests[i].image_url) = base64_image

\* C7: the stages are entered in the order Describing, Ideating,
\* Generating, each at most once; when the description or the completion
\* call fails the run has ended with that error, the later stages were not
\* entered, no generation request was made and no file written.
StageOrder == <<"Describing", "Ideating", "Generating">>

C7_StageOrder ==
    /\ Len(stages) <= Len(StageOrder)
    /\ stages = SubSeq(StageOrder, 1, Len(stages))
    /\ raised \in ServiceErrors =>
           /\ pc = "raised"
           /\ ~Entered("Generating")
           /\ GenRequests = <<>>
           /\ files = <<>>
           /\ images = <<>>
           /\ requests[Len(requests)].service \in {"description", "completion"}
           /\ Len(requests) = Len(stages)
           /\ ~ENABLED Next

C7_Witness ==
    /\ raised \in ServiceErrors
    /\ stages = <<"Describing", "Ideating">>
    /\ pc = "raised"

\* C8 (amended): a key whose response holds a generation call whose result
\* decodes, and whose file was opened and written, has the outcome
\* "<key>_hashi.png"; when that outcome is recorded the file of that name
\* holds the decoded bytes; the end-to-end scenario ends with exactly
\* {"prompt1": "prompt1_hashi.png"}.
Scenario == Obj1(<<"prompt1">>, <<"rotate 90 degrees">>)

Started == idx + (IF pc \in {"await", "write", "record"} THEN 1 ELSE 0)

C9_OneRequestPerKey ==
    /\ in_flight \in {0, 1}
    /\ in_flight = 1 <=> pc = "await"
    /\ Started <= Len(prompts_json)
    /\ GenKeys = SubSeq(DictKeys(prompts_json), 1, Started)
    /\ pc = "done" => GenKeys = DictKeys(prompts_json)
    /\ pc = "await" =>
           /\ Len(images) = Len(GenKeys) - 1
           /\ DictKeys(images) = SubSeq(GenKeys, 1, Len(GenKeys) - 1)

C9_Witness ==
    /\ pc = "await"
    /\ Len(GenKeys) = 2
    /\ observed[1].raised = NULL /\ observed[1].output = 0
    /\ images[1].val = NoImageGenerated

\* C10 (as claimed): at the return, every key whose outcome is its file
\* path has at that path the decoded bytes of the first generation call of
\* its own response; a failed decode or write left an "Error:" outcome.
C10_AsClaimed ==
    pc = "done" =>
        \A i \in 1..Len(images) :
            /\ images[i].val = FilePath(images[i].key) =>
                   /\ observed[i].write = "written"
                   /\ FileExists(images[i].val)
                   /\ FileAt(images[i].val) = Decoded(observed[i]).bytes
            /\ (observed[i].calls > 0 /\ observed[i].write # "written") =>
                   StartsWith(images[i].val, <<"Error: ">>)

====
